---- MODULE Spec2Model ----
(***************************************************************************)
(* Model of the ingestion pipeline of SRM-RAG.                             *)
(*                                                                         *)
(*   backend/crawler/crawl.py : normalize_url, get_robot_parser,          *)
(*                              fetch_page, parse_page, discover_links,    *)
(*                              crawl                                      *)
(*                                                                         *)
(* A URL is a sequence of one-character strings, so that lower-casing,     *)
(* stripping, splitting and re-joining are computed character by           *)
(* character, as Python computes them.  urllib.parse is modelled after     *)
(* CPython 3.11 (urlsplit / urlunsplit / urlparse / urljoin).              *)
(***************************************************************************)
EXTENDS Integers, Sequences, FiniteSets, TLC

(***************************************************************************)
(* Characters and strings                                                  *)
(***************************************************************************)

\* str.lower() on the letters the model's inputs use; any other character is
\* its own lower case.
UpperToLower ==
    [c \in {"A", "B", "D", "E", "H", "L", "P", "T", "U", "X"} |->
        CASE c = "A" -> "a" [] c = "B" -> "b" [] c = "D" -> "d" [] c = "E" -> "e"
          [] c = "H" -> "h" [] c = "L" -> "l" [] c = "P" -> "p" [] c = "T" -> "t"
          [] c = "U" -> "u" [] c = "X" -> "x"]

LowerChar(c) == IF c \in DOMAIN UpperToLower THEN UpperToLower[c] ELSE c

\* str.lower()
Lower(s) == [i \in 1..Len(s) |-> LowerChar(s[i])]

\* The whitespace str.strip() removes (of the characters the inputs use).
IsSpace(c) == c = " "

\* str.strip(): drop leading and trailing whitespace.
Strip(s) ==
    LET keep == {i \in 1..Len(s) : ~IsSpace(s[i])}
    IN  IF keep = {} THEN <<>>
        ELSE LET lo == CHOOSE i \in keep : \A j \in keep : i <= j
                 hi == CHOOSE i \in keep : \A j \in keep : j <= i
             IN  SubSeq(s, lo, hi)

\* str.find(c, start) with 1-based positions: the first position >= start
\* holding c, or 0 when there is none.
Find(s, c, start) ==
    LET hits == {i \in start..Len(s) : s[i] = c}
    IN  IF hits = {} THEN 0 ELSE CHOOSE i \in hits : \A j \in hits : i <= j

\* str.rfind(c): the last position holding c, or 0.
RFind(s, c) ==
    LET hits == {i \in 1..Len(s) : s[i] = c}
    IN  IF hits = {} THEN 0 ELSE CHOOSE i \in hits : \A j \in hits : j <= i

\* s[i:] and s[:i] of Python, for a 1-based position p: From(s, p) starts at
\* p, Upto(s, p) ends right before p.
From(s, p) == SubSeq(s, p, Len(s))
Upto(s, p) == SubSeq(s, 1, p - 1)

\* str.startswith(prefix)
StartsWith(s, prefix) ==
    /\ Len(prefix) <= Len(s)
    /\ SubSeq(s, 1, Len(prefix)) = prefix

\* prefix tuple version: str.startswith((p1, p2, ...))
StartsWithAny(s, prefixes) == \E p \in prefixes : StartsWith(s, p)

\* `sub in s` / re.search of a literal pattern: sub occurs somewhere in s.
Contains(s, sub) ==
    \E i \in 1..(Len(s) - Len(sub) + 1) : SubSeq(s, i, i + Len(sub) - 1) = sub

\* str.split(sep) for a one-character separator: always at least one field.
RECURSIVE Split(_, _)
Split(s, sep) ==
    LET p == Find(s, sep, 1)
    IN  IF p = 0 THEN <<s>>
        ELSE <<Upto(s, p)>> \o Split(From(s, p + 1), sep)

\* sep.join(fields)
RECURSIVE Join(_, _)
Join(fields, sep) ==
    IF fields = <<>> THEN <<>>
    ELSE IF Len(fields) = 1 THEN fields[1]
    ELSE fields[1] \o <<sep>> \o Join(Tail(fields), sep)

(***************************************************************************)
(* urllib.parse, as crawl.py uses it                                       *)
(***************************************************************************)

HTTP == <<"h", "t", "t", "p">>
HTTPS == <<"h", "t", "t", "p", "s">>
MAILTO == <<"m", "a", "i", "l", "t", "o">>

\* The schemes of urllib's uses_netloc / uses_params / uses_relative that the
\* model's inputs can produce (the empty scheme is in all three).
uses_netloc == {<<>>, HTTP, HTTPS}
uses_params == {<<>>, HTTP, HTTPS}
uses_relative == {<<>>, HTTP, HTTPS}

Letters ==
    {"a", "b", "c", "d", "e", "f", "g", "h", "i", "k", "l", "m", "o", "p", "s",
     "t", "u", "v", "x", "y", "z",
     "A", "B", "D", "E", "H", "L", "P", "T", "U", "X"}
scheme_chars == Letters \cup {"1", "2", "+", "-", "."}

\* urlsplit's scheme detection: a ':' at a position > first, the first
\* character a letter, and only scheme characters before the ':'.
HasScheme(url) ==
    LET i == Find(url, ":", 1)
    IN  /\ i > 1
        /\ url[1] \in Letters
        /\ \A j \in 1..(i - 1) : url[j] \in scheme_chars

\* _splitnetloc(url, 2): the netloc runs from after '//' to the earliest of
\* '/', '?', '#' (or the end).
NetlocEnd(url) ==
    LET ds == {p \in {Find(url, "/", 3), Find(url, "?", 3), Find(url, "#", 3)} : p > 0}
    IN  IF ds = {} THEN Len(url) + 1
        ELSE CHOOSE p \in ds : \A r \in ds : p <= r

\* url.lstrip(): urlsplit drops leading spaces only.
LStrip(s) ==
    LET lead == {i \in 1..Len(s) : ~IsSpace(s[i])}
    IN  IF lead = {} THEN <<>>
        ELSE From(s, CHOOSE i \in lead : \A j \in lead : i <= j)

\* urlsplit, the scheme: [scheme, rest].
SplitScheme(url, scheme0) ==
    IF HasScheme(url)
    THEN [scheme |-> Lower(Upto(url, Find(url, ":", 1))),
          rest |-> From(url, Find(url, ":", 1) + 1)]
    ELSE [scheme |-> scheme0, rest |-> url]

\* urlsplit, `if url[:2] == '//'`: [netloc, rest].
SplitNetloc(url) ==
    IF Len(url) >= 2 /\ url[1] = "/" /\ url[2] = "/"
    THEN [netloc |-> SubSeq(url, 3, NetlocEnd(url) - 1),
          rest |-> From(url, NetlocEnd(url))]
    ELSE [netloc |-> <<>>, rest |-> url]

\* url.split(c, 1) when c is in url: [head, tail]; else the url and ''.
SplitFirst(url, c) ==
    IF Find(url, c, 1) > 0
    THEN [head |-> Upto(url, Find(url, c, 1)), tail |-> From(url, Find(url, c, 1) + 1)]
    ELSE [head |-> url, tail |-> <<>>]

SplitResult(scheme, netloc, pq, fragment) ==
    [scheme |-> scheme, netloc |-> netloc, path |-> pq.head,
     query |-> pq.tail, fragment |-> fragment]

SplitAfterNetloc(scheme, netloc, uf) ==
    SplitResult(scheme, netloc, SplitFirst(uf.head, "?"), uf.tail)

SplitAfterScheme(scheme, n) ==
    SplitAfterNetloc(scheme, n.netloc, SplitFirst(n.rest, "#"))

SplitFromScheme(s) == SplitAfterScheme(s.scheme, SplitNetloc(s.rest))

\* urllib.parse.urlsplit(url, scheme): scheme, netloc, path, query, fragment;
\* scheme0 is the default when the url names no scheme.  The fragment is cut
\* at the first '#' after the netloc, then the query at the first '?'.
\* (The model's inputs hold no tab, CR, LF or square bracket.)
urlsplit(url0, scheme0) == SplitFromScheme(SplitScheme(LStrip(url0), scheme0))

\* _splitparams(url): position of the ';' that starts the params of the last
\* path segment, or 0.
ParamsAt(path) ==
    IF Find(path, "/", 1) > 0 THEN Find(path, ";", RFind(path, "/"))
    ELSE Find(path, ";", 1)

ParseResult(s, i) ==
    [scheme |-> s.scheme, netloc |-> s.netloc,
     path |-> IF i > 0 THEN Upto(s.path, i) ELSE s.path,
     params |-> IF i > 0 THEN From(s.path, i + 1) ELSE <<>>,
     query |-> s.query, fragment |-> s.fragment]

WithParams(s) ==
    ParseResult(s, IF s.scheme \in uses_params THEN ParamsAt(s.path) ELSE 0)

\* urllib.parse.urlparse(url, scheme): urlsplit plus the params of the last
\* path segment.
urlparse(url, scheme0) == WithParams(urlsplit(url, scheme0))

\* urlunsplit, the '//netloc' part: present with a netloc, or with a scheme
\* of uses_netloc when the path does not itself start with '//'.
WithNetloc(scheme, netloc, path) ==
    IF \/ netloc # <<>>
       \/ /\ scheme # <<>>
          /\ scheme \in uses_netloc
          /\ ~(Len(path) >= 2 /\ path[1] = "/" /\ path[2] = "/")
    THEN <<"/", "/">> \o netloc
         \o (IF path # <<>> /\ path[1] # "/" THEN <<"/">> ELSE <<>>) \o path
    ELSE path

\* urllib.parse.urlunsplit
urlunsplit(scheme, netloc, path, query, fragment) ==
    (IF scheme # <<>> THEN scheme \o <<":">> ELSE <<>>)
    \o WithNetloc(scheme, netloc, path)
    \o (IF query # <<>> THEN <<"?">> \o query ELSE <<>>)
    \o (IF fragment # <<>> THEN <<"#">> \o fragment ELSE <<>>)

\* ParseResult.geturl() == urlunparse(self)
geturl(p) ==
    urlunsplit(p.scheme, p.netloc,
               IF p.params # <<>> THEN p.path \o <<";">> \o p.params ELSE p.path,
               p.query, p.fragment)

\* urljoin's path resolution: '..' pops a segment (ignored on an empty list),
\* '.' is skipped, any other segment is appended.
RECURSIVE ResolveSegments(_, _)
ResolveSegments(segments, resolved) ==
    IF segments = <<>> THEN resolved
    ELSE LET seg == Head(segments)
         IN  ResolveSegments(Tail(segments),
                 IF seg = <<".", ".">>
                 THEN (IF resolved = <<>> THEN <<>>
                       ELSE SubSeq(resolved, 1, Len(resolved) - 1))
                 ELSE IF seg = <<".">> THEN resolved
                 ELSE Append(resolved, seg))

NonEmpty(seg) == seg # <<>>

\* base_parts: the base path's segments without its last, non-directory one.
BaseParts(bp0) ==
    IF bp0[Len(bp0)] # <<>> THEN SubSeq(bp0, 1, Len(bp0) - 1) ELSE bp0

\* segments[1:-1] = filter(None, segments[1:-1])
DropInnerEmpty(seg0) ==
    IF Len(seg0) < 2 THEN seg0
    ELSE <<seg0[1]>> \o SelectSeq(SubSeq(seg0, 2, Len(seg0) - 1), NonEmpty)
         \o <<seg0[Len(seg0)]>>

\* The segments urljoin resolves: the url's own for a rooted path, else the
\* base's directory followed by the url's.
Segments(bpath, path) ==
    IF path # <<>> /\ path[1] = "/" THEN Split(path, "/")
    ELSE DropInnerEmpty(BaseParts(Split(bpath, "/")) \o Split(path, "/"))

\* '/'.join(resolved_path) or '/', a trailing '' added after '.' or '..'.
JoinResolved(segments) ==
    Join(ResolveSegments(segments, <<>>)
         \o (IF segments[Len(segments)] \in {<<".">>, <<".", ".">>}
             THEN << <<>> >> ELSE <<>>), "/")

ResolvedPath(bpath, path) ==
    IF JoinResolved(Segments(bpath, path)) = <<>> THEN <<"/">>
    ELSE JoinResolved(Segments(bpath, path))

JoinParsed(b, u, url) ==
    IF u.scheme # b.scheme \/ u.scheme \notin uses_relative THEN url
    ELSE IF u.scheme \in uses_netloc /\ u.netloc # <<>> THEN geturl(u)
    ELSE IF u.path = <<>> /\ u.params = <<>>
    THEN geturl([u EXCEPT !.netloc = b.netloc, !.path = b.path,
                          !.params = b.params,
                          !.query = IF u.query = <<>> THEN b.query ELSE u.query])
    ELSE geturl([u EXCEPT !.netloc = b.netloc,
                          !.path = ResolvedPath(b.path, u.path)])

JoinWithBase(b, url) == JoinParsed(b, urlparse(url, b.scheme), url)

\* urllib.parse.urljoin(base, url)
urljoin(base, url) ==
    IF base = <<>> THEN url
    ELSE IF url = <<>> THEN base
    ELSE JoinWithBase(urlparse(base, <<>>), url)

(***************************************************************************)
(* normalize_url                                                           *)
(***************************************************************************)

\* The tracking-parameter prefixes of normalize_url.
TrackingPrefixes ==
    {<<"u", "t", "m", "_">>,
     <<"g", "c", "l", "i", "d">>,
     <<"f", "b", "c", "l", "i", "d">>}

NotTracking(p) == ~StartsWithAny(p, TrackingPrefixes)

\* '&'.join(p for p in parsed.query.split('&') if not p.startswith(...))
clean_params(query) == Join(SelectSeq(Split(query, "&"), NotTracking), "&")

\* parsed._replace(query=clean_params, fragment="").geturl()
Cleaned(parsed) ==
    geturl([parsed EXCEPT !.query = clean_params(parsed.query),
                          !.fragment = <<>>])

normalize_url(url) == Cleaned(urlparse(Strip(Lower(url)), <<>>))

(***************************************************************************)
(* Inputs of the model                                                     *)
(***************************************************************************)

MaxPages == 2
MaxLinks == 2
MaxParts == 3

A_ROOT == <<"h", "t", "t", "p", ":", "/", "/", "a", ".", "e", "d", "u", "/">>
A_X == <<"h", "t", "t", "p", ":", "/", "/", "a", ".", "e", "d", "u", "/", "x">>
B_Y == <<"h", "t", "t", "p", ":", "/", "/", "b", ".", "c", "o", "m", "/", "y">>

\* --start values: a canonical one and one that normalization changes.
StartUrls ==
    {A_ROOT,
     <<"H", "T", "T", "P", ":", "/", "/", "A", ".", "e", "d", "u", "/", "#", "f">>}

\* href values a fetched page may hold: a same-domain link, a link to another
\* domain, a link with host and path in upper case and a tracking parameter,
\* a relative link back to the site's root with a fragment, a link of
\* another scheme.
Hrefs ==
    {A_X,
     B_Y,
     <<"h", "t", "t", "p", ":", "/", "/", "A", ".", "E", "D", "U", "/", "L",
       "?", "u", "t", "m", "_", "s", "=", "1">>,
     <<"/", "#", "f">>,
     MAILTO \o <<":", "a">>}

\* --include / --exclude values; the empty pattern stands for "not given"
\* (`not include` is true of None and of '').  A pattern is a literal, so
\* re.search(pattern, s) is "pattern occurs in s".
IncludePatterns == {<<>>, <<"/", "x">>}
ExcludePatterns == {<<>>, <<"e", "d", "u", "/">>}

\* URLs a robots policy of the site may disallow.
RobotsScope == {A_ROOT, A_X}

\* All sequences over S of length <= n.
SeqsUpTo(S, n) == UNION {[1..k -> S] : k \in 0..n}

(***************************************************************************)
(* State                                                                   *)
(***************************************************************************)

VARIABLES
    pc,             \* position in crawl()
    start_url, domain, max_pages, same_domain, include, exclude,
    robot_parser,   \* None, or the loaded policy
    q,              \* deque of URLs to visit
    seen_pages,     \* set of URLs ever enqueued
    pages_crawled,
    out_file,       \* the lines written to the page dataset, in order
    url,            \* the URL of the current iteration
    soup,           \* the fetched page: has it a content container, and
                    \* its hrefs in document order
    iter_log,       \* history: one entry per loop iteration
    enq_log,        \* history: every q.append, in order (the start URL first)
    dropped,        \* history: the links of the page just recorded that
                    \* were already in seen_pages (until the sleep)
    robots_read,    \* history: how rp.read() ended ("none" before it)
    links,          \* LinkInfo of every page and href, computed once
    flushed,        \* how many lines of out_file have reached the disk
    norm_pc, norm_in, norm_out, norm_out2,  \* normalize_url applied twice
    \* chunk_document(doc)
    cd_pc,
    doc_text,       \* doc['clean_text']
    doc_headings,   \* doc['headings']
    heading_stack,
    all_chunks,
    stack_log,      \* history: heading_stack after each heading
    sect_log,       \* history: section_text of each heading
    \* chunk_section(text, max_chunk_tokens, overlap_tokens)
    cs_pc,
    sentences,      \* nltk.sent_tokenize(text)
    max_chunk_tokens, overlap_tokens,
    sent_i,         \* how many sentences the loop has taken
    chunks,
    current_chunk_sentences, current_chunk_tokens,
    chunk_log,      \* history: the sentences of each chunk appended
    seed_log,       \* history: the sentences each next chunk was seeded with
    \* process_file(input_path, output_dir)
    pf_pc,
    f_in,           \* the lines of the input file
    line_i,         \* how many lines have been read
    f_out,          \* the chunk records written
    line_log        \* history: the records each line has written

crawl_vars ==
    <<pc, start_url, domain, max_pages, same_domain, include, exclude,
      robot_parser, q, seen_pages, pages_crawled, out_file, url, soup,
      iter_log, enq_log, dropped, robots_read, links, flushed>>
norm_vars == <<norm_pc, norm_in, norm_out, norm_out2>>
doc_vars ==
    <<cd_pc, doc_text, doc_headings, heading_stack, all_chunks, stack_log,
      sect_log>>
sect_vars ==
    <<cs_pc, sentences, max_chunk_tokens, overlap_tokens, sent_i, chunks,
      current_chunk_sentences, current_chunk_tokens, chunk_log, seed_log>>
file_vars == <<pf_pc, f_in, line_i, f_out, line_log>>
chunker_vars == <<doc_vars, sect_vars, file_vars>>
vars == <<crawl_vars, norm_vars, chunker_vars>>

\* chunk_document is not running.
DocIdle ==
    /\ cd_pc = "idle" /\ doc_text = <<>> /\ doc_headings = <<>>
    /\ heading_stack = <<>> /\ all_chunks = <<>> /\ stack_log = <<>>
    /\ sect_log = <<>>

\* chunk_section is not running.
SectIdle ==
    /\ cs_pc = "idle" /\ sentences = <<>> /\ max_chunk_tokens = 0
    /\ overlap_tokens = 0 /\ sent_i = 0 /\ chunks = <<>>
    /\ current_chunk_sentences = <<>> /\ current_chunk_tokens = 0
    /\ chunk_log = <<>> /\ seed_log = <<>>

\* process_file is not running.
FileIdle ==
    /\ pf_pc = "idle" /\ f_in = <<>> /\ line_i = 0 /\ f_out = <<>>
    /\ line_log = <<>>

ChunkerIdle == DocIdle /\ SectIdle /\ FileIdle

None == [loaded |-> FALSE, disallowed |-> {}]

\* No page is held (before a fetch, after the iteration).
NoSoup == [has_content |-> FALSE, hrefs |-> <<>>]

Range(s) == {s[i] : i \in 1..Len(s)}

(***************************************************************************)
(* crawl.py helpers                                                        *)
(***************************************************************************)

\* RobotFileParser.can_fetch(user_agent, url) of a loaded policy.
can_fetch(rp, u) == u \notin rp.disallowed

\* A mutant of RobotsDenies: the test of can_fetch is inverted.
RobotsDenies_inverted(rp, u) == rp.loaded /\ can_fetch(rp, u)

\* `robot_parser and not robot_parser.can_fetch(user_agent, url)`
RobotsDenies(rp, u) == rp.loaded /\ ~can_fetch(rp, u)

\* A mutant of RobotsReadFailed: the parser that was never read is returned,
\* and it permits nothing.
RobotsReadFailed_unread == [loaded |-> TRUE, disallowed |-> RobotsScope]

\* get_robot_parser's result when rp.read() raises.
RobotsReadFailed == None

\* A mutant of LoopCond: <= for <.
LoopCond_le(qq, n, maxp) == qq # <<>> /\ n <= maxp

\* `while q and pages_crawled < max_pages`
LoopCond(qq, n, maxp) == qq # <<>> /\ n < maxp

\* Every URL a crawl of the model's inputs can hold: the normalized start
\* URLs, closed under the links of Hrefs resolved against them.
RECURSIVE UrlClosure(_)
UrlClosure(S) ==
    LET T == S \cup {normalize_url(urljoin(b, h)) : b \in S, h \in Hrefs}
    IN  IF T = S THEN S ELSE UrlClosure(T)

CrawlUrls == UrlClosure({normalize_url(s) : s \in StartUrls})

\* Lines 144-146 and 155 of discover_links for the link `h` of the page at
\* `b`: abs_link, parsed_link and the normalized link.
LinkInfo(b, h) ==
    [abs_link |-> urljoin(b, h),
     parsed_link |-> urlparse(urljoin(b, h), <<>>),
     normalized |-> normalize_url(urljoin(b, h))]

\* The condition of discover_links on one link (lines 148-154).
LinkPasses(l, dom, same, inc, exc) ==
    /\ l.parsed_link.scheme \in {HTTP, HTTPS}
    /\ (~same \/ l.parsed_link.netloc = dom)
    /\ (inc = <<>> \/ Contains(l.abs_link, inc))
    /\ (exc = <<>> \/ ~Contains(l.abs_link, exc))

\* discover_links(soup, base_url, domain, same_domain, include, exclude);
\* `links` holds LinkInfo of every (page, href).
discover_links(hrefs, base_url, dom, same, inc, exc) ==
    LET Pass(l) == LinkPasses(l, dom, same, inc, exc)
        kept == SelectSeq([i \in 1..Len(hrefs) |-> links[base_url, hrefs[i]]], Pass)
    IN  [i \in 1..Len(kept) |-> kept[i].normalized]

\* A mutant of Unseen: the seen-set is not consulted.
Unseen_always(link, seen) == TRUE

\* `if link not in seen_pages`
Unseen(link, seen) == link \notin seen

\* A mutant of EnqueueOne: the link is appended but not added to seen_pages.
EnqueueOne_noadd(link, acc) ==
    IF Unseen(link, acc.seen)
    THEN [acc EXCEPT !.q = Append(@, link), !.added = Append(@, link)]
    ELSE [acc EXCEPT !.dropped = @ \cup {link}]

\* A mutant of EnqueueOne: the link is pushed at the front of q
\* (appendleft).
EnqueueOne_front(link, acc) ==
    IF Unseen(link, acc.seen)
    THEN [acc EXCEPT !.q = <<link>> \o @, !.seen = @ \cup {link},
                     !.added = Append(@, link)]
    ELSE [acc EXCEPT !.dropped = @ \cup {link}]

\* Lines 202-204, the loop body: an unseen link is appended to q and added
\* to seen_pages.  acc holds the queue and the seen-set, and for the history
\* the links appended and the links dropped as already seen.
EnqueueOne(link, acc) ==
    IF Unseen(link, acc.seen)
    THEN [acc EXCEPT !.q = Append(@, link), !.seen = @ \cup {link},
                     !.added = Append(@, link)]
    ELSE [acc EXCEPT !.dropped = @ \cup {link}]

\* Lines 201-204: for link in new_links: ...
RECURSIVE EnqueueNew(_, _)
EnqueueNew(new_links, acc) ==
    IF new_links = <<>> THEN acc
    ELSE EnqueueNew(Tail(new_links), EnqueueOne(Head(new_links), acc))

\* The last entry of iter_log with its outcome (and fetched flag) set.
Outcome(log, o, f) ==
    [log EXCEPT ![Len(log)].outcome = o, ![Len(log)].fetched = f]

(***************************************************************************)
(* crawl()                                                                 *)
(***************************************************************************)

NormIdle ==
    /\ norm_pc = "idle" /\ norm_in = <<>> /\ norm_out = <<>> /\ norm_out2 = <<>>

\* Lines 162-177: the arguments, the start URL normalized, the state before
\* get_robot_parser.
CrawlInit ==
    /\ \E s \in StartUrls :
          /\ start_url = normalize_url(s)
          /\ domain = urlparse(normalize_url(s), <<>>).netloc
    /\ max_pages \in (0 - 1)..MaxPages
    /\ same_domain \in BOOLEAN
    /\ include \in IncludePatterns
    /\ exclude \in ExcludePatterns
    /\ robot_parser = None
    /\ q = <<start_url>>
    /\ seen_pages = {start_url}
    /\ pages_crawled = 0
    /\ out_file = <<>>
    /\ url = <<>>
    /\ soup = NoSoup
    /\ iter_log = <<>>
    /\ enq_log = <<start_url>>
    /\ dropped = {}
    /\ robots_read = "none"
    /\ links = [b \in CrawlUrls, h \in Hrefs |-> LinkInfo(b, h)]
    /\ flushed = 0
    /\ pc = "get_robot_parser"

Init == CrawlInit /\ NormIdle /\ ChunkerIdle

\* get_robot_parser: rp.read() succeeds and the policy is loaded.
RobotsLoaded ==
    /\ pc = "get_robot_parser"
    /\ \E d \in SUBSET RobotsScope :
          robot_parser' = [loaded |-> TRUE, disallowed |-> d]
    /\ robots_read' = "ok"
    /\ pc' = "loop"
    /\ UNCHANGED <<start_url, domain, max_pages, same_domain, include, exclude,
                   q, seen_pages, pages_crawled, out_file, url, soup,
                   iter_log, enq_log, dropped, links, flushed, norm_vars,
                   chunker_vars>>

\* get_robot_parser: rp.read() raises; the error is logged, None returned.
RobotsFailed ==
    /\ pc = "get_robot_parser"
    /\ robot_parser' = RobotsReadFailed
    /\ robots_read' = "error"
    /\ pc' = "loop"
    /\ UNCHANGED <<start_url, domain, max_pages, same_domain, include, exclude,
                   q, seen_pages, pages_crawled, out_file, url, soup,
                   iter_log, enq_log, dropped, links, flushed, norm_vars,
                   chunker_vars>>

\* Line 180-181: the loop condition holds; url = q.popleft().
Dequeue ==
    /\ pc = "loop"
    /\ LoopCond(q, pages_crawled, max_pages)
    /\ url' = Head(q)
    /\ q' = Tail(q)
    /\ iter_log' = Append(iter_log,
                     [url |-> Head(q), outcome |-> "pending", fetched |-> FALSE,
                      slept |-> FALSE, q0 |-> Tail(q), seen0 |-> seen_pages,
                      out0 |-> out_file, pages0 |-> pages_crawled])
    /\ pc' = "robots"
    /\ UNCHANGED <<start_url, domain, max_pages, same_domain, include, exclude,
                   robot_parser, seen_pages, pages_crawled, out_file, soup,
                   enq_log, dropped, robots_read, links, flushed, norm_vars,
                   chunker_vars>>

\* Line 180: the loop condition fails; leaving the `with` block of line 179
\* closes the file, which writes out what is buffered.
LoopExit ==
    /\ pc = "loop"
    /\ ~LoopCond(q, pages_crawled, max_pages)
    /\ flushed' = Len(out_file)
    /\ pc' = "done"
    /\ UNCHANGED <<start_url, domain, max_pages, same_domain, include, exclude,
                   robot_parser, q, seen_pages, pages_crawled, out_file, url,
                   soup, iter_log, enq_log, dropped, robots_read, links,
                   norm_vars, chunker_vars>>

\* Lines 183-185: robots denial; `continue`.
RobotsDeny ==
    /\ pc = "robots"
    /\ RobotsDenies(robot_parser, url)
    /\ iter_log' = Outcome(iter_log, "denied", FALSE)
    /\ pc' = "loop"
    /\ UNCHANGED <<start_url, domain, max_pages, same_domain, include, exclude,
                   robot_parser, q, seen_pages, pages_crawled, out_file, url,
                   soup, enq_log, dropped, robots_read, links, flushed, norm_vars,
                   chunker_vars>>

\* Lines 189-191: fetch_page returns None (request error, bad status or
\* non-HTML content); `continue`.
FetchFail ==
    /\ pc = "robots"
    /\ ~RobotsDenies(robot_parser, url)
    /\ iter_log' = Outcome(iter_log, "fetch_failed", TRUE)
    /\ pc' = "loop"
    /\ UNCHANGED <<start_url, domain, max_pages, same_domain, include, exclude,
                   robot_parser, q, seen_pages, pages_crawled, out_file, url,
                   soup, enq_log, dropped, robots_read, links, flushed, norm_vars,
                   chunker_vars>>

\* Lines 189-193: fetch_page returns a response; it is parsed into soup.  A
\* document without <main>, <article> or <body> holds no link.
FetchOk ==
    /\ pc = "robots"
    /\ ~RobotsDenies(robot_parser, url)
    /\ \/ soup' = NoSoup
       \/ \E hrefs \in SeqsUpTo(Hrefs, MaxLinks) :
             soup' = [has_content |-> TRUE, hrefs |-> hrefs]
    /\ iter_log' = Outcome(iter_log, "pending", TRUE)
    /\ pc' = "parse"
    /\ UNCHANGED <<start_url, domain, max_pages, same_domain, include, exclude,
                   robot_parser, q, seen_pages, pages_crawled, out_file, url,
                   enq_log, dropped, robots_read, links, flushed, norm_vars,
                   chunker_vars>>

\* A mutant of ParseMiss: the missing page is written all the same.
ParseMiss_written ==
    /\ pc = "parse"
    /\ ~soup.has_content
    /\ out_file' = Append(out_file, [url |-> url])
    /\ iter_log' = Outcome(iter_log, "extract_miss", TRUE)
    /\ soup' = NoSoup
    /\ pc' = "sleep"
    /\ UNCHANGED <<start_url, domain, max_pages, same_domain, include, exclude,
                   robot_parser, q, seen_pages, pages_crawled, url,
                   enq_log, dropped, robots_read, links, flushed, norm_vars,
                   chunker_vars>>

\* Lines 194-196: parse_page returns None (no content container).
ParseMiss ==
    /\ pc = "parse"
    /\ ~soup.has_content
    /\ iter_log' = Outcome(iter_log, "extract_miss", TRUE)
    /\ soup' = NoSoup
    /\ pc' = "sleep"
    /\ UNCHANGED <<start_url, domain, max_pages, same_domain, include, exclude,
                   robot_parser, q, seen_pages, pages_crawled, out_file, url,
                   enq_log, dropped, robots_read, links, flushed, norm_vars,
                   chunker_vars>>

\* Lines 196-204: the page record is written, counted, and its links
\* enqueued.
ParseOk ==
    /\ pc = "parse"
    /\ soup.has_content
    /\ out_file' = Append(out_file, [url |-> url])
    /\ pages_crawled' = pages_crawled + 1
    /\ \E r \in {EnqueueNew(discover_links(soup.hrefs, url, domain, same_domain,
                                            include, exclude),
                             [q |-> q, seen |-> seen_pages, added |-> <<>>,
                              dropped |-> {}])} :
           /\ q' = r.q
           /\ seen_pages' = r.seen
           /\ enq_log' = enq_log \o r.added
           /\ dropped' = r.dropped
    /\ iter_log' = Outcome(iter_log, "recorded", TRUE)
    /\ soup' = NoSoup
    /\ pc' = "sleep"
    /\ UNCHANGED <<start_url, domain, max_pages, same_domain, include, exclude,
                   robot_parser, url, robots_read, links, flushed, norm_vars,
                   chunker_vars>>

\* A mutant of Sleep: time.sleep never returns.
Sleep_forever ==
    /\ pc = "sleep"
    /\ iter_log' = [iter_log EXCEPT ![Len(iter_log)].slept = TRUE]
    /\ dropped' = {}
    /\ pc' = "sleep"
    /\ UNCHANGED <<start_url, domain, max_pages, same_domain, include, exclude,
                   robot_parser, q, seen_pages, pages_crawled, out_file, url,
                   soup, enq_log, robots_read, links, flushed, norm_vars,
                   chunker_vars>>

\* Line 206: time.sleep(delay), then back to the loop condition.
Sleep ==
    /\ pc = "sleep"
    /\ iter_log' = [iter_log EXCEPT ![Len(iter_log)].slept = TRUE]
    /\ dropped' = {}
    /\ pc' = "loop"
    /\ UNCHANGED <<start_url, domain, max_pages, same_domain, include, exclude,
                   robot_parser, q, seen_pages, pages_crawled, out_file, url,
                   soup, enq_log, robots_read, links, flushed, norm_vars,
                   chunker_vars>>

Next ==
    \/ RobotsLoaded
    \/ RobotsFailed
    \/ Dequeue
    \/ LoopExit
    \/ RobotsDeny
    \/ FetchFail
    \/ FetchOk
    \/ ParseMiss
    \/ ParseOk
    \/ Sleep

Spec == Init /\ [][Next]_vars

\* crawl() as a running process: the loop is sequential code in which every
\* call returns (requests.get has a timeout, line 106; robots.txt is read
\* once; time.sleep(delay) ends), so a step that can be taken is taken.
LiveSpec == Init /\ [][Next]_vars /\ WF_vars(Next)

(***************************************************************************)
(* normalize_url applied to a URL, then to its own result                  *)
(***************************************************************************)

\* The pieces a raw URL is put together from.
UrlPieces ==
    {<<"h", "t", "t", "p", ":", "/", "/", "a", ".", "e", "d", "u">>,
     <<"/", "X">>,
     <<" ">>,
     <<"#", "f">>,
     <<"?", "u", "t", "m", "_", "s", "=", "1">>,
     <<"&", "k", "=", "v">>,
     <<"?", "k", "=", "v">>,
     <<"&", "g", "c", "l", "i", "d">>}

RECURSIVE Flatten(_)
Flatten(ps) == IF ps = <<>> THEN <<>> ELSE Head(ps) \o Flatten(Tail(ps))

\* Raw URLs of at most MaxParts pieces.
RawUrls == {Flatten(ps) : ps \in SeqsUpTo(UrlPieces, MaxParts)}

CrawlIdle ==
    /\ pc = "idle" /\ start_url = <<>> /\ domain = <<>> /\ max_pages = 0
    /\ same_domain = FALSE /\ include = <<>> /\ exclude = <<>>
    /\ robot_parser = None /\ q = <<>> /\ seen_pages = {} /\ pages_crawled = 0
    /\ out_file = <<>> /\ url = <<>> /\ soup = NoSoup /\ iter_log = <<>>
    /\ enq_log = <<>> /\ dropped = {} /\ robots_read = "none"
    /\ links = <<>> /\ flushed = 0

NormInit ==
    /\ norm_pc = "raw"
    /\ norm_in \in RawUrls
    /\ norm_out = <<>>
    /\ norm_out2 = <<>>
    /\ CrawlIdle
    /\ ChunkerIdle

\* url2 = normalize_url(url)
NormalizeOnce ==
    /\ norm_pc = "raw"
    /\ norm_out' = normalize_url(norm_in)
    /\ norm_pc' = "once"
    /\ UNCHANGED <<norm_in, norm_out2, crawl_vars, chunker_vars>>

\* url3 = normalize_url(url2)
NormalizeTwice ==
    /\ norm_pc = "once"
    /\ norm_out2' = normalize_url(norm_out)
    /\ norm_pc' = "twice"
    /\ UNCHANGED <<norm_in, norm_out, crawl_vars, chunker_vars>>

NormNext == NormalizeOnce \/ NormalizeTwice

NormSpec == NormInit /\ [][NormNext]_vars

(***************************************************************************)
(* chunker.py: text helpers                                                *)
(***************************************************************************)

\* str.find(sub, start) with 1-based positions: the first position >= start
\* where sub occurs, or 0 when there is none.
FindSeq(s, sub, start) ==
    LET hits == {p \in start..(Len(s) - Len(sub) + 1) :
                    SubSeq(s, p, p + Len(sub) - 1) = sub}
    IN  IF hits = {} THEN 0 ELSE CHOOSE p \in hits : \A r \in hits : p <= r

\* The end of the first sentence of s: the first "." that ends the text or
\* is followed by whitespace; 0 when there is none.
SentenceEnd(s) ==
    LET ends == {p \in 1..Len(s) :
                    s[p] = "." /\ (p = Len(s) \/ IsSpace(s[p + 1]))}
    IN  IF ends = {} THEN 0 ELSE CHOOSE p \in ends : \A r \in ends : p <= r

\* nltk.sent_tokenize(text) on the model's texts: the text is cut after each
\* sentence-final period, the sentences carry no surrounding whitespace, and
\* a text of whitespace only has no sentence.
RECURSIVE sent_tokenize(_)
sent_tokenize(s) ==
    LET t == Strip(s)
        p == SentenceEnd(t)
    IN  IF t = <<>> THEN <<>>
        ELSE IF p = 0 THEN <<t>>
        ELSE <<Upto(t, p + 1)>> \o sent_tokenize(From(t, p + 1))

\* The words of a sentence: its maximal runs of non-whitespace.
Words(s) == SelectSeq(Split(s, " "), LAMBDA w : w # <<>>)

\* len(nltk.word_tokenize(sentence)) on the model's sentences: one token a
\* word, and one more for the period that ends the sentence when it is
\* attached to the last word.
word_count(s) ==
    LET w == Words(s)
    IN  IF w = <<>> THEN 0
        ELSE Len(w) + (IF Len(w[Len(w)]) > 1 /\ s[Len(s)] = "." THEN 1 ELSE 0)

\* sum(len(nltk.word_tokenize(s)) for s in sents)
RECURSIVE sum_tokens(_)
sum_tokens(sents) ==
    IF sents = <<>> THEN 0 ELSE word_count(Head(sents)) + sum_tokens(Tail(sents))

(***************************************************************************)
(* get_text_for_heading                                                    *)
(***************************************************************************)

\* Lines 22-29: end_pos, as a 1-based position one past the last character
\* kept.  The later headings are tried in order from index j; one counts
\* when its level is <= level and its text occurs at or after start_pos.
RECURSIVE EndPos(_, _, _, _, _)
EndPos(text, hs, level, start_pos, j) ==
    IF j > Len(hs) THEN Len(text) + 1
    ELSE IF hs[j].level <= level /\ FindSeq(text, hs[j].text, start_pos) # 0
         THEN FindSeq(text, hs[j].text, start_pos)
         ELSE EndPos(text, hs, level, start_pos, j + 1)

\* A mutant of get_text_for_heading: the section always runs to the end of
\* the text.
get_text_to_end(text, hs, heading_index) ==
    IF FindSeq(text, hs[heading_index].text, 1) = 0 THEN <<>>
    ELSE From(text, FindSeq(text, hs[heading_index].text, 1))

\* A mutant of get_text_for_heading: a heading that is not found gets the
\* whole text.
get_text_or_all(text, hs, heading_index) ==
    LET start_pos == FindSeq(text, hs[heading_index].text, 1)
    IN  IF start_pos = 0 THEN text
        ELSE SubSeq(text, start_pos,
                    EndPos(text, hs, hs[heading_index].level, start_pos,
                           heading_index + 1) - 1)

\* get_text_for_heading(text, headings, heading_index), 1-based index.
get_text_for_heading(text, hs, heading_index) ==
    LET start_pos == FindSeq(text, hs[heading_index].text, 1)
    IN  IF start_pos = 0 THEN <<>>
        ELSE SubSeq(text, start_pos,
                    EndPos(text, hs, hs[heading_index].level, start_pos,
                           heading_index + 1) - 1)

(***************************************************************************)
(* chunk_section                                                           *)
(***************************************************************************)

\* Lines 52-58: overlap_sentence_count.  The sentences of the closed chunk
\* are walked from the last one (index i) back; the walk stops, before
\* counting the sentence, as soon as the tokens met reach overlap.
RECURSIVE OverlapCount(_, _, _, _, _)
OverlapCount(cur, i, tokens_in_overlap, overlap_sentence_count, overlap) ==
    IF i < 1 THEN overlap_sentence_count
    ELSE IF tokens_in_overlap + word_count(cur[i]) >= overlap
         THEN overlap_sentence_count
         ELSE OverlapCount(cur, i - 1, tokens_in_overlap + word_count(cur[i]),
                           overlap_sentence_count + 1, overlap)

\* Lines 52-63: the sentences the next chunk starts with.
OverlapSeed(cur, overlap) ==
    LET n == OverlapCount(cur, Len(cur), 0, 0, overlap)
    IN  IF n > 0 THEN SubSeq(cur, Len(cur) - n + 1, Len(cur)) ELSE <<>>

\* Line 48: the sentence does not fit the chunk being built.
Overflows(st, sentence, max_tokens) ==
    /\ st.tokens + word_count(sentence) > max_tokens
    /\ st.current # <<>>

\* Lines 45-68, the loop body for one sentence.  st holds chunks,
\* current_chunk_sentences (current) and current_chunk_tokens (tokens), and
\* for the history the sentences of every chunk appended (log) and the seed
\* after every overflow (seeds).
AddSentence(st, sentence, max_tokens, overlap) ==
    IF Overflows(st, sentence, max_tokens)
    THEN LET seed == OverlapSeed(st.current, overlap)
         IN  [chunks |-> Append(st.chunks, Join(st.current, " ")),
              current |-> Append(seed, sentence),
              tokens |-> sum_tokens(seed) + word_count(sentence),
              log |-> Append(st.log, st.current),
              seeds |-> Append(st.seeds, seed)]
    ELSE [st EXCEPT !.current = Append(@, sentence),
                    !.tokens = @ + word_count(sentence)]

\* A mutant of CloseLast: the sentences left after the loop are not emitted.
CloseLast_none(st) == st

\* Lines 70-71: the sentences left are the last chunk.
CloseLast(st) ==
    IF st.current # <<>>
    THEN [st EXCEPT !.chunks = Append(@, Join(st.current, " ")),
                    !.log = Append(@, st.current)]
    ELSE st

\* Lines 41-43.
NoChunks == [chunks |-> <<>>, current |-> <<>>, tokens |-> 0,
             log |-> <<>>, seeds |-> <<>>]

RECURSIVE AddSentences(_, _, _, _)
AddSentences(st, sents, max_tokens, overlap) ==
    IF sents = <<>> THEN st
    ELSE AddSentences(AddSentence(st, Head(sents), max_tokens, overlap),
                      Tail(sents), max_tokens, overlap)

\* chunk_section(text, max_chunk_tokens, overlap_tokens)
chunk_section(text, max_tokens, overlap) ==
    CloseLast(AddSentences(NoChunks, sent_tokenize(text), max_tokens, overlap)).chunks

\* The defaults of chunk_section's parameters, which chunk_document uses.
DefaultMaxChunkTokens == 400
DefaultOverlapTokens == 100

(***************************************************************************)
(* chunk_document                                                          *)
(***************************************************************************)

\* A mutant of PopClosed: `if` for `while`, one entry popped at most.
PopClosed_once(stack, level) ==
    IF stack # <<>> /\ level <= stack[Len(stack)].level
    THEN SubSeq(stack, 1, Len(stack) - 1)
    ELSE stack

\* Lines 92-93: while heading_stack and level <= heading_stack[-1].level:
\* heading_stack.pop()
RECURSIVE PopClosed(_, _)
PopClosed(stack, level) ==
    IF stack # <<>> /\ level <= stack[Len(stack)].level
    THEN PopClosed(SubSeq(stack, 1, Len(stack) - 1), level)
    ELSE stack

\* Lines 92-94: the stack after the heading is pushed.
PushHeading(stack, heading) == Append(PopClosed(stack, heading.level), heading)

\* [h['text'] for h in heading_stack]
StackTexts(stack) == [k \in 1..Len(stack) |-> stack[k].text]

\* A mutant of SectionChunks: the chunks carry the path of the stack as it
\* was before the heading was pushed.
SectionChunks_stale(section_text, stack) ==
    LET cs == chunk_section(section_text, DefaultMaxChunkTokens, DefaultOverlapTokens)
    IN  [k \in 1..Len(cs) |->
            [text |-> cs[k],
             section_path |-> StackTexts(SubSeq(stack, 1, Len(stack) - 1))]]

\* Lines 97-105: the chunk dicts of one section; none for an empty section.
SectionChunks(section_text, stack) ==
    LET cs == chunk_section(section_text, DefaultMaxChunkTokens, DefaultOverlapTokens)
    IN  [k \in 1..Len(cs) |-> [text |-> cs[k], section_path |-> StackTexts(stack)]]

\* Lines 91-105, the loop body for heading i.  st holds heading_stack (stack)
\* and all_chunks (chunks).
VisitHeading(st, text, hs, i) ==
    LET stack == PushHeading(st.stack, hs[i])
    IN  [stack |-> stack,
         chunks |-> st.chunks \o SectionChunks(get_text_for_heading(text, hs, i), stack)]

RECURSIVE VisitHeadings(_, _, _, _)
VisitHeadings(st, text, hs, i) ==
    IF i > Len(hs) THEN st
    ELSE VisitHeadings(VisitHeading(st, text, hs, i), text, hs, i + 1)

\* A mutant of WholeDocChunks: the text is one chunk, without chunk_section.
WholeDocChunks_raw(text) == <<[text |-> text, section_path |-> <<>>]>>

\* Lines 83-88: a document without headings is one section with an empty
\* section_path.
WholeDocChunks(text) ==
    LET cs == chunk_section(text, DefaultMaxChunkTokens, DefaultOverlapTokens)
    IN  [k \in 1..Len(cs) |-> [text |-> cs[k], section_path |-> <<>>]]

\* A mutant of chunk_document: the headings are ignored.
chunk_document_whole(doc) == WholeDocChunks(doc.clean_text)

\* chunk_document(doc)
chunk_document(doc) ==
    IF doc.headings = <<>> THEN WholeDocChunks(doc.clean_text)
    ELSE VisitHeadings([stack |-> <<>>, chunks |-> <<>>], doc.clean_text,
                       doc.headings, 1).chunks

(***************************************************************************)
(* chunk_document, heading by heading                                      *)
(***************************************************************************)

MaxHeadings == 5

H_A1 == [level |-> 1, text |-> <<"A">>]
H_B2 == [level |-> 2, text |-> <<"B">>]
H_C3 == [level |-> 3, text |-> <<"C">>]
H_C2 == [level |-> 2, text |-> <<"C">>]

\* The headings a page may list.
HeadingPool == {H_A1, H_B2, H_C3, H_C2}

\* clean_text values: one with the three heading texts in order, one where
\* "B" comes before "A" and "C" is missing, one with no heading text, and
\* the empty text (a page whose clean_text is "").
TEXT_ABC == <<"A", " ", "x", ".", " ", "B", " ", "y", ".", " ", "C", " ", "z", ".">>
TEXT_BA == <<"B", " ", "y", ".", " ", "A", " ", "x", ".">>
TEXT_NONE == <<"x", " ", "y", ".">>

TEXT_EMPTY == <<>>

DocTexts == {TEXT_ABC, TEXT_BA, TEXT_NONE, TEXT_EMPTY}

DocInit ==
    /\ cd_pc = "start"
    /\ doc_text \in DocTexts
    /\ doc_headings \in SeqsUpTo(HeadingPool, MaxHeadings)
    /\ heading_stack = <<>>
    /\ all_chunks = <<>>
    /\ stack_log = <<>>
    /\ sect_log = <<>>
    /\ CrawlIdle /\ NormIdle /\ SectIdle /\ FileIdle

\* Lines 83-88: no headings; the whole text is chunked and returned.
DocWhole ==
    /\ cd_pc = "start"
    /\ doc_headings = <<>>
    /\ all_chunks' = WholeDocChunks(doc_text)
    /\ cd_pc' = "returned"
    /\ UNCHANGED <<doc_text, doc_headings, heading_stack, stack_log, sect_log,
                   crawl_vars, norm_vars, sect_vars, file_vars>>

\* Lines 91-105: one iteration of the loop over the headings.
HeadingStep ==
    /\ cd_pc \in {"start", "loop"}
    /\ Len(stack_log) < Len(doc_headings)
    /\ LET i == Len(stack_log) + 1
           st == VisitHeading([stack |-> heading_stack, chunks |-> all_chunks],
                              doc_text, doc_headings, i)
       IN  /\ heading_stack' = st.stack
           /\ all_chunks' = st.chunks
           /\ stack_log' = Append(stack_log, st.stack)
           /\ sect_log' = Append(sect_log,
                                 get_text_for_heading(doc_text, doc_headings, i))
    /\ cd_pc' = "loop"
    /\ UNCHANGED <<doc_text, doc_headings, crawl_vars, norm_vars, sect_vars,
                   file_vars>>

\* Line 107: return all_chunks.
DocReturn ==
    /\ cd_pc = "loop"
    /\ Len(stack_log) = Len(doc_headings)
    /\ cd_pc' = "returned"
    /\ UNCHANGED <<doc_text, doc_headings, heading_stack, all_chunks, stack_log,
                   sect_log, crawl_vars, norm_vars, sect_vars, file_vars>>

DocNext == DocWhole \/ HeadingStep \/ DocReturn

DocSpec == DocInit /\ [][DocNext]_vars

(***************************************************************************)
(* Properties                                                              *)
(***************************************************************************)

NoDup(seq) == \A i, j \in 1..Len(seq) : i # j => seq[i] # seq[j]

\* The URLs of the page records written.
Written == [i \in 1..Len(out_file) |-> out_file[i].url]

\* The URLs dequeued so far, in order.
Dequeued == [i \in 1..Len(iter_log) |-> iter_log[i].url]

Skips == {"denied", "fetch_failed", "extract_miss"}

\* The iterations that are over: all but the one in progress.
Finished == {i \in 1..Len(iter_log) : i < Len(iter_log) \/ pc \in {"loop", "done"}}

\* ParseResult.hostname of a link: the netloc in lower case (the model's
\* links carry no port or user information).
Host(l) == Lower(l.parsed_link.netloc)

\* C1: normalize_url is idempotent: normalizing the result of normalize_url
\* again gives the same string, for every raw URL.
C1_Idempotent == norm_pc = "twice" => norm_out2 = norm_out

\* C2: no URL appears more than once as the url of a page record written to
\* the output dataset.
C2_NoDuplicateRecord == NoDup(Written)

\* C2 witness: two pages are written and a link found on the second was
\* dropped because its normalized form was already seen.
C2_Witness == Len(out_file) >= 2 /\ pc = "sleep" /\ dropped # {}

\* C3: a URL is enqueued at most once in a run: the queue holds no
\* duplicates, no URL was appended twice, every URL queued or dequeued is in
\* seen_pages, and a skipped URL is neither queued again nor dequeued or
\* fetched a second time.
C3_EnqueuedOnce ==
    /\ NoDup(q)
    /\ NoDup(enq_log)
    /\ Range(q) \cup Range(Dequeued) \subseteq seen_pages
    /\ \A i \in 1..Len(iter_log) :
          iter_log[i].outcome \in Skips =>
             /\ iter_log[i].url \notin Range(q)
             /\ \A j \in 1..Len(iter_log) : j # i => iter_log[j].url # iter_log[i].url

\* C3 witness: a URL was skipped, and a page recorded later links to it
\* again; the link is dropped.
C3_Witness ==
    /\ pc = "sleep"
    /\ \E i \in 1..Len(iter_log) :
          iter_log[i].outcome \in Skips /\ iter_log[i].url \in dropped

\* C4: the politeness delay is executed after every loop iteration, whatever
\* its outcome, before the next URL is dequeued.
C4_SleepEveryIteration == \A i \in Finished : iter_log[i].slept

\* C5: with a robots policy loaded, no URL the policy disallows is ever
\* fetched (the start URL included); it is skipped, not written and neither
\* queued nor dequeued again.
C5_RobotsBeforeFetch ==
    robot_parser.loaded =>
       \A i \in 1..Len(iter_log) :
          iter_log[i].url \in robot_parser.disallowed =>
             /\ ~iter_log[i].fetched
             /\ iter_log[i].outcome \in {"pending", "denied"}
             /\ i \in Finished => iter_log[i].outcome = "denied"
             /\ iter_log[i].url \notin Range(Written)
             /\ iter_log[i].url \notin Range(q)
             /\ \A j \in 1..Len(iter_log) : j # i => iter_log[j].url # iter_log[i].url

\* C5 witness: a URL found by links was denied, and the crawl went on to
\* fetch another URL.
C5_Witness ==
    \E i, j \in 1..Len(iter_log) :
       /\ 1 < i /\ i < j
       /\ iter_log[i].outcome = "denied"
       /\ iter_log[j].fetched

\* C6: when reading robots.txt raised an error, no policy is held and no URL
\* of the run is skipped for robots reasons.
C6_RobotsFailOpen ==
    robots_read = "error" =>
       /\ ~robot_parser.loaded
       /\ \A i \in 1..Len(iter_log) : iter_log[i].outcome # "denied"
       /\ \A i \in Finished : iter_log[i].fetched

\* C6 witness: after a read error, the URLs a policy of the site could
\* disallow were both fetched.
C6_Witness ==
    /\ robots_read = "error"
    /\ \A u \in RobotsScope :
          \E i \in 1..Len(iter_log) : iter_log[i].url = u /\ iter_log[i].fetched

\* The step that records a page and enqueues its links.
RecordStep == pc = "parse" /\ pc' = "sleep" /\ soup.has_content

\* C7: with same_domain (and no include/exclude filter), every http/https
\* link on a recorded page whose host is the start URL's domain is in the
\* seen-set after the page is processed (enqueued now or before), and no
\* link to another host is; so every URL ever enqueued has the start domain
\* as host.
C7_SameDomainLinks ==
    [][(RecordStep /\ same_domain /\ include = <<>> /\ exclude = <<>>) =>
          /\ \A k \in 1..Len(soup.hrefs) :
                LET l == links[url, soup.hrefs[k]]
                IN  l.parsed_link.scheme \in {HTTP, HTTPS} =>
                       /\ Host(l) = domain => l.normalized \in seen_pages'
                       /\ Host(l) # domain => l.normalized \notin seen_pages'
          /\ \A u \in seen_pages' : Lower(urlparse(u, <<>>).netloc) = domain
      ]_vars

\* C8 as amended: pages_crawled equals the number of page records written
\* and never exceeds max_pages when max_pages >= 0 (with a negative max_pages
\* it stays 0); an iteration is in progress only while its page count was
\* below max_pages at the dequeue; and the loop has exited only with the
\* queue empty or pages_crawled >= max_pages.
C8_PageBudget ==
    /\ pages_crawled = Len(out_file)
    /\ max_pages >= 0 => pages_crawled <= max_pages
    /\ max_pages < 0 => pages_crawled = 0 /\ iter_log = <<>>
    /\ \A i \in 1..Len(iter_log) : iter_log[i].pages0 < max_pages
    /\ pc = "done" => (q = <<>> \/ pages_crawled >= max_pages)
    /\ (pc = "done" /\ max_pages >= 0) => (q = <<>> \/ pages_crawled = max_pages)

\* C8 witness: the loop has exited because the page count reached max_pages,
\* with URLs still queued.
C8_Witness ==
    pc = "done" /\ q # <<>> /\ max_pages >= 2 /\ pages_crawled = max_pages

\* C8 as stated: pages_crawled equals the number of records written and
\* never exceeds max_pages; nothing is dequeued or fetched once
\* pages_crawled has reached max_pages; the loop exits only with the queue
\* empty or pages_crawled = max_pages.
C8_Original ==
    /\ pages_crawled = Len(out_file)
    /\ pages_crawled <= max_pages
    /\ \A i \in 1..Len(iter_log) : iter_log[i].pages0 < max_pages
    /\ pc = "done" => (q = <<>> \/ pages_crawled = max_pages)

\* C9: a robots denial, a fetch failure and an extraction miss end the
\* iteration with the output, pages_crawled, seen_pages and the queue as they
\* were right after the dequeue (nothing written, nothing enqueued), and do
\* not end the crawl: the loop is left only when its condition fails.
C9_SkipAndContinue ==
    /\ (iter_log # <<>> /\ iter_log[Len(iter_log)].outcome \in Skips) =>
          LET e == iter_log[Len(iter_log)]
          IN  /\ pc \in {"sleep", "loop", "done"}
              /\ out_file = e.out0
              /\ pages_crawled = e.pages0
              /\ seen_pages = e.seen0
              /\ q = e.q0
    /\ pc = "done" => (q = <<>> \/ pages_crawled >= max_pages)

\* C9 witness: an iteration was skipped with URLs left in the queue, and the
\* crawl went on to record a page in a later iteration.
C9_Witness ==
    \E i, j \in 1..Len(iter_log) :
       /\ i < j
       /\ iter_log[i].outcome \in Skips
       /\ iter_log[i].q0 # <<>>
       /\ iter_log[j].outcome = "recorded"

\* C10: on a recorded page every link that passes the scheme, same-domain
\* and include/exclude conditions is enqueued unless its normalized form was
\* seen, and every URL enqueued from a link matches the include pattern when
\* one is set and does not match the exclude pattern when one is set.
C10_FilteredLinks ==
    [][RecordStep =>
          /\ \A k \in 1..Len(soup.hrefs) :
                LET l == links[url, soup.hrefs[k]]
                IN  LinkPasses(l, domain, same_domain, include, exclude) =>
                       /\ l.normalized \in seen_pages'
                       /\ l.normalized \notin seen_pages =>
                             l.normalized \in Range(q')
          /\ \A u \in seen_pages' \ seen_pages :
                /\ include = <<>> \/ Contains(u, include)
                /\ exclude = <<>> \/ ~Contains(u, exclude)
      ]_vars

(***************************************************************************)
(* Properties of chunk_document and get_text_for_heading                   *)
(***************************************************************************)

LevelsOf(hs) == [k \in 1..Len(hs) |-> hs[k].level]

\* The outline rule: every entry with level >= the new heading's level is
\* removed, then the new heading is pushed.
Outline(stack, heading) ==
    SelectSeq(stack, LAMBDA e : e.level < heading.level) \o <<heading>>

StrictlyDeeper(stack) ==
    \A k \in 1..(Len(stack) - 1) : stack[k].level < stack[k + 1].level

\* The headings [H1, H2, H2, H3, H1] and the stacks after each of them.
OutlineLevels == <<1, 2, 2, 3, 1>>
OutlineStacks == <<(<<1>>), <<1, 2>>, <<1, 2>>, <<1, 2, 3>>, (<<1>>)>>

\* C11: the open section stack after each heading is the stack before it
\* with every entry of level >= the heading's level removed and the heading
\* pushed; its levels increase strictly from bottom to top and its top is
\* the current heading; for [H1,H2,H2,H3,H1] the stacks are [H1], [H1,H2],
\* [H1,H2], [H1,H2,H3], [H1].
C11_HeadingStack ==
    /\ \A k \in 1..Len(stack_log) :
          /\ stack_log[k] =
                Outline(IF k = 1 THEN <<>> ELSE stack_log[k - 1], doc_headings[k])
          /\ StrictlyDeeper(stack_log[k])
          /\ stack_log[k][Len(stack_log[k])] = doc_headings[k]
    /\ stack_log # <<>> => heading_stack = stack_log[Len(stack_log)]
    /\ (Len(stack_log) = 5 /\ LevelsOf(doc_headings) = OutlineLevels) =>
          [k \in 1..5 |-> LevelsOf(stack_log[k])] = OutlineStacks

\* C11 witness: the five headings [H1,H2,H2,H3,H1] have been processed; the
\* last one closed three open sections.
C11_Witness ==
    /\ Len(stack_log) = 5
    /\ LevelsOf(doc_headings) = OutlineLevels
    /\ Len(stack_log[4]) = 3
    /\ Len(heading_stack) = 1

\* One iteration of chunk_document's loop over the headings.
HeadingVisited == cd_pc \in {"start", "loop"} /\ cd_pc' = "loop"

\* C12: the chunks emitted for heading i carry as section_path the texts of
\* the stack as it stands right after heading i is pushed, root first and
\* heading i's own text last; the chunks emitted before are left as they
\* were.
C12_SectionPath ==
    [][HeadingVisited =>
          /\ Len(all_chunks') >= Len(all_chunks)
          /\ SubSeq(all_chunks', 1, Len(all_chunks)) = all_chunks
          /\ \A k \in (Len(all_chunks) + 1)..Len(all_chunks') :
                LET path == all_chunks'[k].section_path
                    i == Len(stack_log')
                IN  /\ path = StackTexts(stack_log'[i])
                    /\ path = StackTexts(Outline(heading_stack, doc_headings[i]))
                    /\ path[Len(path)] = doc_headings[i].text
      ]_vars

\* C12 witness: for the headings [H1 "A", H2 "B", H2 "B"] the chunk under the
\* third heading has section_path ["A", "B"], after a chunk with path ["A"].
C12_Witness ==
    /\ doc_headings = <<H_A1, H_B2, H_B2>>
    /\ Len(stack_log) = 3
    /\ sect_log[3] # <<>>
    /\ Len(all_chunks) = 2
    /\ all_chunks[1].section_path = <<(<<"A">>)>>
    /\ all_chunks[2].section_path = <<(<<"A">>), (<<"B">>)>>

\* The later headings of level <= heading i's level.
Closers(hs, i) == {j \in (i + 1)..Len(hs) : hs[j].level <= hs[i].level}

\* Those of them whose text occurs at or after position p of the text.
FoundClosers(text, hs, i, p) ==
    {j \in Closers(hs, i) : FindSeq(text, hs[j].text, p) # 0}

First(S) == CHOOSE j \in S : \A k \in S : j <= k

\* C13 as amended: the section of heading i is empty when the heading's text
\* does not occur in the text; otherwise it starts at the first occurrence
\* of the heading's text and ends right before the first occurrence, at or
\* after that start, of the text of the first later heading whose level is
\* <= heading i's level and whose text occurs at or after that start; it
\* runs to the end of the text when no later heading meets both conditions.
C13_SectionSpan ==
    \A i \in 1..Len(sect_log) :
       LET p == FindSeq(doc_text, doc_headings[i].text, 1)
           found == FoundClosers(doc_text, doc_headings, i, p)
       IN  /\ p = 0 => sect_log[i] = <<>>
           /\ (p # 0 /\ found = {}) => sect_log[i] = From(doc_text, p)
           /\ (p # 0 /\ found # {}) =>
                 sect_log[i] =
                    SubSeq(doc_text, p,
                           FindSeq(doc_text, doc_headings[First(found)].text, p) - 1)

\* C13 witness: the first later heading of level <= the heading's level does
\* not occur after the heading, a further one does, and the section ends
\* there, before the end of the text.
C13_Witness ==
    \E i \in 1..Len(sect_log) :
       LET p == FindSeq(doc_text, doc_headings[i].text, 1)
           found == FoundClosers(doc_text, doc_headings, i, p)
       IN  /\ p # 0
           /\ found # {}
           /\ First(Closers(doc_headings, i)) \notin found
           /\ sect_log[i] # <<>>
           /\ sect_log[i] # From(doc_text, p)

\* C13 as stated: the section starts at the first occurrence of heading i's
\* text and ends at the first later heading whose level is <= heading i's
\* level, or at the end of the text if there is no such later heading.
C13_Original ==
    \A i \in 1..Len(sect_log) :
       LET p == FindSeq(doc_text, doc_headings[i].text, 1)
           closers == Closers(doc_headings, i)
       IN  p # 0 =>
              /\ closers = {} => sect_log[i] = From(doc_text, p)
              /\ closers # {} =>
                    LET e == FindSeq(doc_text, doc_headings[First(closers)].text, p)
                    IN  e # 0 /\ sect_log[i] = SubSeq(doc_text, p, e - 1)

(***************************************************************************)
(* chunk_section, sentence by sentence                                     *)
(***************************************************************************)

MaxSentences == 4
MaxBudget == 6
MaxOverlap == 3

\* Sentences of two, three and five tokens.
S_2 == <<"a", ".">>
S_3 == <<"a", " ", "b", ".">>
S_5 == <<"a", " ", "b", " ", "c", " ", "d", ".">>

SentencePool == {S_2, S_3, S_5}

\* The section texts: up to MaxSentences sentences separated by a blank.
SectionTexts == {Join(ss, " ") : ss \in SeqsUpTo(SentencePool, MaxSentences)}

\* Lines 37-43: the text is cut into sentences; nothing is chunked yet.
SectInit ==
    /\ cs_pc = "loop"
    /\ \E text \in SectionTexts : sentences = sent_tokenize(text)
    /\ max_chunk_tokens \in 1..MaxBudget
    /\ overlap_tokens \in 0..MaxOverlap
    /\ sent_i = 0
    /\ chunks = NoChunks.chunks
    /\ current_chunk_sentences = NoChunks.current
    /\ current_chunk_tokens = NoChunks.tokens
    /\ chunk_log = NoChunks.log
    /\ seed_log = NoChunks.seeds
    /\ CrawlIdle /\ NormIdle /\ DocIdle /\ FileIdle

\* chunk_section's state as the record AddSentence works on.
SectState ==
    [chunks |-> chunks, current |-> current_chunk_sentences,
     tokens |-> current_chunk_tokens, log |-> chunk_log, seeds |-> seed_log]

\* The state after the loop body has run for the next sentence.
SentenceTaken ==
    /\ cs_pc = "loop"
    /\ sent_i < Len(sentences)
    /\ LET st == AddSentence(SectState, sentences[sent_i + 1],
                             max_chunk_tokens, overlap_tokens)
       IN  /\ chunks' = st.chunks
           /\ current_chunk_sentences' = st.current
           /\ current_chunk_tokens' = st.tokens
           /\ chunk_log' = st.log
           /\ seed_log' = st.seeds
    /\ sent_i' = sent_i + 1
    /\ UNCHANGED <<cs_pc, sentences, max_chunk_tokens, overlap_tokens,
                   crawl_vars, norm_vars, doc_vars, file_vars>>

\* Lines 45-68 when the sentence fits (or the chunk is empty): it is added
\* to the current chunk.
SentenceFits ==
    /\ sent_i < Len(sentences)
    /\ ~Overflows(SectState, sentences[sent_i + 1], max_chunk_tokens)
    /\ SentenceTaken

\* Lines 45-68 on overflow: the current chunk is closed, the next one is
\* seeded with the overlap, and the sentence is added to it.
SentenceOverflows ==
    /\ sent_i < Len(sentences)
    /\ Overflows(SectState, sentences[sent_i + 1], max_chunk_tokens)
    /\ SentenceTaken

\* Lines 38-39 and 70-73: the sentences left form the last chunk; return.
SectReturn ==
    /\ cs_pc = "loop"
    /\ sent_i = Len(sentences)
    /\ LET st == CloseLast(SectState)
       IN  /\ chunks' = st.chunks
           /\ chunk_log' = st.log
    /\ cs_pc' = "returned"
    /\ UNCHANGED <<sentences, max_chunk_tokens, overlap_tokens, sent_i,
                   current_chunk_sentences, current_chunk_tokens, seed_log,
                   crawl_vars, norm_vars, doc_vars, file_vars>>

SectNext == SentenceFits \/ SentenceOverflows \/ SectReturn

SectSpec == SectInit /\ [][SectNext]_vars

\* C14: every chunk emitted by chunk_section has a total sentence-token
\* count <= max_chunk_tokens, except a chunk of a single sentence that alone
\* exceeds max_chunk_tokens.
C14_ChunkBudget ==
    \A k \in 1..Len(chunk_log) :
       \/ sum_tokens(chunk_log[k]) <= max_chunk_tokens
       \/ /\ Len(chunk_log[k]) = 1
          /\ word_count(chunk_log[k][1]) > max_chunk_tokens

\* t is a trailing suffix of s.
IsSuffix(t, s) ==
    /\ Len(t) <= Len(s)
    /\ SubSeq(s, Len(s) - Len(t) + 1, Len(s)) = t

IsPrefix(t, s) == Len(t) <= Len(s) /\ SubSeq(s, 1, Len(t)) = t

\* C15: whenever a chunk is closed on overflow, the next chunk is seeded with
\* the minimal trailing suffix of the closed chunk's sentences whose tokens
\* total >= overlap_tokens (at least the last sentence; the whole chunk when
\* it holds fewer tokens), and the next chunk starts with these sentences.
C15_Overlap ==
    \A k \in 1..Len(seed_log) :
       LET seed == seed_log[k]
           closed == chunk_log[k]
       IN  /\ Len(seed) >= 1
           /\ IsSuffix(seed, closed)
           /\ sum_tokens(seed) >= overlap_tokens \/ seed = closed
           /\ Len(seed) > 1 => sum_tokens(Tail(seed)) < overlap_tokens
           /\ k < Len(chunk_log) => IsPrefix(seed, chunk_log[k + 1])

(***************************************************************************)
(* process_file                                                            *)
(***************************************************************************)

\* A mutant of associated_images: snippet and chunk text are compared in
\* lower case.
associated_images_lower(images, chunk_text) ==
    LET hit(image) ==
            /\ image.context_snippet # <<>>
            /\ Contains(Lower(chunk_text), Lower(image.context_snippet))
        kept == SelectSeq(images, hit)
    IN  [k \in 1..Len(kept) |-> kept[k].url]

\* Lines 125-131: the URLs of the images whose context_snippet is set and
\* occurs in the chunk text, and whose url is set, in the page's order.
RECURSIVE associated_images(_, _)
associated_images(images, chunk_text) ==
    IF images = <<>> THEN <<>>
    ELSE LET image == Head(images)
             rest == associated_images(Tail(images), chunk_text)
         IN  IF /\ image.context_snippet # <<>>
                /\ Contains(chunk_text, image.context_snippet)
                /\ image.url # <<>>
             THEN <<image.url>> \o rest
             ELSE rest

\* str(i) for the ordinals the model's pages reach.
Digits == <<"0", "1", "2", "3", "4", "5", "6", "7", "8", "9">>
str(i) == <<Digits[i + 1]>>

\* Lines 133-141: the record of the chunk with ordinal i (from 0).
final_chunk(data, i, chunk_data) ==
    [chunk_id |-> data.url \o <<"-">> \o str(i),
     page_id |-> data.url,
     url |-> data.url,
     title |-> data.title,
     text |-> chunk_data.text,
     section_path |-> chunk_data.section_path,
     images |-> associated_images(data.images, chunk_data.text)]

\* Lines 120-142: the records one page line writes.
page_chunks(data) ==
    LET chunk_data_list == chunk_document(data)
    IN  [k \in 1..Len(chunk_data_list) |->
            final_chunk(data, k - 1, chunk_data_list[k])]

MaxLines == 3

TEXT_INTRO == <<"I", "n", "t", "r", "o", " ", "t", "e", "x", "t", ".", " ", "S", "e", "e", " ", "d", "e", "t", "a", "i", "l", "s", ".">>
SEE_DETAILS == <<"S", "e", "e", " ", "d", "e", "t", "a", "i", "l", "s", ".">>
INTRO_TEXT == <<"I", "n", "t", "r", "o", " ", "t", "e", "x", "t", ".">>
H_INTRO == [level |-> 1, text |-> <<"I", "n", "t", "r", "o">>]

\* Images: one whose snippet is the second sentence of TEXT_INTRO, one whose
\* snippet "y." occurs in TEXT_ABC and TEXT_BA, one with an empty snippet,
\* one whose snippet "b y." differs from the texts' "B y." by case only.
IMG_SEE == [url |-> <<"i", "1">>, context_snippet |-> SEE_DETAILS]
IMG_Y == [url |-> <<"i", "2">>, context_snippet |-> <<"y", ".">>]
IMG_EMPTY == [url |-> <<"i", "3">>, context_snippet |-> <<>>]
IMG_CASE == [url |-> <<"i", "4">>, context_snippet |-> <<"b", " ", "y", ".">>]

ImageLists == {<<>>, <<IMG_SEE>>, <<IMG_Y, IMG_EMPTY, IMG_CASE, IMG_SEE>>}

\* The page records a dataset may hold: a page with one heading, a page with
\* two nested headings, a page without headings, each with any of the image
\* lists.
Page(page_url, text, hs, images) ==
    [url |-> page_url, title |-> <<"t">>, clean_text |-> text,
     headings |-> hs, images |-> images]

PagePool ==
    {Page(<<"p", "1">>, TEXT_INTRO, <<H_INTRO>>, il) : il \in ImageLists}
    \cup {Page(<<"p", "2">>, TEXT_ABC, <<H_A1, H_B2>>, il) : il \in ImageLists}
    \cup {Page(<<"p", "3">>, TEXT_BA, <<>>, il) : il \in ImageLists}

\* A line of the input file: a page record, or a line json.loads rejects.
Malformed == [ok |-> FALSE, data |-> <<>>]
LinePool == {[ok |-> TRUE, data |-> p] : p \in PagePool} \cup {Malformed}

\* Line 116: both files are open, nothing is read or written.
FileInit ==
    /\ pf_pc = "loop"
    /\ f_in \in SeqsUpTo(LinePool, MaxLines)
    /\ line_i = 0
    /\ f_out = <<>>
    /\ line_log = <<>>
    /\ CrawlIdle /\ NormIdle /\ DocIdle /\ SectIdle

\* Lines 117-142: the next line parses; its chunks are written.
LineChunked ==
    /\ pf_pc = "loop"
    /\ line_i < Len(f_in)
    /\ f_in[line_i + 1].ok
    /\ f_out' = f_out \o page_chunks(f_in[line_i + 1].data)
    /\ line_log' = Append(line_log, page_chunks(f_in[line_i + 1].data))
    /\ line_i' = line_i + 1
    /\ UNCHANGED <<pf_pc, f_in, crawl_vars, norm_vars, doc_vars, sect_vars>>

\* A mutant of LineSkipped: the JSON error ends the run.
LineSkipped_abort ==
    /\ pf_pc = "loop"
    /\ line_i < Len(f_in)
    /\ ~f_in[line_i + 1].ok
    /\ pf_pc' = "aborted"
    /\ UNCHANGED <<f_in, line_i, f_out, line_log, crawl_vars, norm_vars,
                   doc_vars, sect_vars>>

\* Lines 117-119 and 143-145: json.loads raises JSONDecodeError; the line is
\* reported and the loop goes on.
LineSkipped ==
    /\ pf_pc = "loop"
    /\ line_i < Len(f_in)
    /\ ~f_in[line_i + 1].ok
    /\ line_log' = Append(line_log, <<>>)
    /\ line_i' = line_i + 1
    /\ UNCHANGED <<pf_pc, f_in, f_out, crawl_vars, norm_vars, doc_vars,
                   sect_vars>>

\* Line 117: no line is left; the files are closed.
FileDone ==
    /\ pf_pc = "loop"
    /\ line_i = Len(f_in)
    /\ pf_pc' = "done"
    /\ UNCHANGED <<f_in, line_i, f_out, line_log, crawl_vars, norm_vars,
                   doc_vars, sect_vars>>

FileNext == LineChunked \/ LineSkipped \/ FileDone

FileSpec == FileInit /\ [][FileNext]_vars

(***************************************************************************)
(* Properties of process_file                                              *)
(***************************************************************************)

\* The image URLs the associator is to give a chunk: those of the page's
\* images whose snippet is non-empty and a literal substring of the text.
SnippetHits(page, text) ==
    LET hit(image) ==
            image.context_snippet # <<>> /\ Contains(text, image.context_snippet)
        kept == SelectSeq(page.images, hit)
    IN  [k \in 1..Len(kept) |-> kept[k].url]

\* C16: the images field of every chunk written is exactly the URLs of the
\* page's images whose context_snippet is non-empty and a literal substring
\* of the chunk text; an image with an empty snippet, or one that does not
\* occur in the chunk as it is written, is not attached.
C16_ChunkImages ==
    /\ f_out = Flatten(line_log)
    /\ \A k \in 1..Len(line_log) :
          \A c \in 1..Len(line_log[k]) :
             LET r == line_log[k][c]
                 page == f_in[k].data
             IN  /\ r.images = SnippetHits(page, r.text)
                 /\ \A n \in 1..Len(page.images) :
                       LET image == page.images[n]
                       IN  (\/ image.context_snippet = <<>>
                            \/ ~Contains(r.text, image.context_snippet))
                           => image.url \notin Range(r.images)

\* C16 witness: a page with four images gave two chunks; the image whose
\* snippet occurs in both is attached to both, the others to neither.
C16_Witness ==
    \E k \in 1..Len(line_log) :
       /\ f_in[k].ok
       /\ f_in[k].data.images = <<IMG_Y, IMG_EMPTY, IMG_CASE, IMG_SEE>>
       /\ Len(line_log[k]) = 2
       /\ line_log[k][1].images = <<IMG_Y.url>>
       /\ line_log[k][2].images = <<IMG_Y.url>>

\* The page of the end-to-end scenario.
IntroPage == Page(<<"p", "1">>, TEXT_INTRO, <<H_INTRO>>, <<IMG_SEE>>)

\* C17: the page with clean_text "Intro text. See details.", the heading
\* {1, "Intro"} and one image with snippet "See details." gives exactly one
\* chunk, with section_path ["Intro"], a text holding both sentences, and
\* the image's URL in its images.
C17_EndToEnd ==
    \A k \in 1..Len(line_log) :
       (f_in[k].ok /\ f_in[k].data = IntroPage) =>
          /\ Len(line_log[k]) = 1
          /\ line_log[k][1].section_path = <<H_INTRO.text>>
          /\ Contains(line_log[k][1].text, INTRO_TEXT)
          /\ Contains(line_log[k][1].text, SEE_DETAILS)
          /\ line_log[k][1].images = <<IMG_SEE.url>>
          /\ \E n \in 1..Len(f_out) : f_out[n] = line_log[k][1]

\* C17 witness: the scenario's page was the only line of the file, and the
\* file is done with one chunk written.
C17_Witness ==
    /\ pf_pc = "done"
    /\ f_in = <<[ok |-> TRUE, data |-> IntroPage]>>
    /\ Len(f_out) = 1

QueryParams(u) == Split(urlparse(u, <<>>).query, "&")

Lowered(u) == u = Lower(u)
Stripped(u) == u = Strip(u)
NoFragment(u) == \A i \in 1..Len(u) : u[i] # "#"
NoTracking(u) == \A i \in 1..Len(QueryParams(u)) : NotTracking(QueryParams(u)[i])

\* The result's parameters are those of the lower-cased, stripped input
\* that are not tracking parameters, in the input's order.
OrderKept(raw, u) ==
    urlparse(u, <<>>).query =
       Join(SelectSeq(QueryParams(Strip(Lower(raw))), NotTracking), "&")

\* C19: normalize_url(u) is lower-cased, has no surrounding whitespace, has
\* no fragment, holds no query parameter whose key starts with utm_, gclid
\* or fbclid, and keeps the remaining parameters in their original order.
C19_Canonical ==
    norm_pc # "raw" =>
       /\ Lowered(norm_out)
       /\ Stripped(norm_out)
       /\ NoFragment(norm_out)
       /\ NoTracking(norm_out)
       /\ OrderKept(norm_in, norm_out)

(***************************************************************************)
(* crawl() under a hard kill                                               *)
(***************************************************************************)

\* crawl() is running.
Running == pc \notin {"idle", "done", "killed"}

\* Line 197 writes to a file opened with the default buffering (line 179):
\* a line stays in the process's buffer until the buffer fills up or the
\* file is closed.  The buffer fills up and its lines reach the disk.
BufferFlush ==
    /\ Running
    /\ flushed < Len(out_file)
    /\ flushed' = Len(out_file)
    /\ UNCHANGED <<pc, start_url, domain, max_pages, same_domain, include,
                   exclude, robot_parser, q, seen_pages, pages_crawled,
                   out_file, url, soup, iter_log, enq_log, dropped,
                   robots_read, links, norm_vars, chunker_vars>>

\* The process is killed outright: what is on the disk stays, what is in the
\* buffer is gone.
Kill ==
    /\ Running
    /\ pc' = "killed"
    /\ UNCHANGED <<start_url, domain, max_pages, same_domain, include,
                   exclude, robot_parser, q, seen_pages, pages_crawled,
                   out_file, url, soup, iter_log, enq_log, dropped,
                   robots_read, links, flushed, norm_vars, chunker_vars>>

CrashNext == Next \/ BufferFlush \/ Kill

CrashSpec == Init /\ [][CrashNext]_vars

\* C20: when the crawl is killed, at most one successfully extracted page is
\* missing from the output dataset on the disk.
C20_AtMostOneLost == pc = "killed" => pages_crawled - flushed <= 1

(***************************************************************************)
(* chunk_document without headings                                         *)
(***************************************************************************)

\* The texts of the chunks returned, in order.
ChunkTexts == [k \in 1..Len(all_chunks) |-> all_chunks[k].text]

\* C21: when chunk_document returns for a page without headings, the texts
\* of its chunks are exactly chunk_section(clean_text) with the default
\* budgets, in order, every chunk has an empty section_path, and an empty
\* clean_text gives no chunk at all.
C21_NoHeadings ==
    (cd_pc = "returned" /\ doc_headings = <<>>) =>
        /\ ChunkTexts = chunk_section(doc_text, DefaultMaxChunkTokens,
                                      DefaultOverlapTokens)
        /\ \A k \in 1..Len(all_chunks) : all_chunks[k].section_path = <<>>
        /\ \A k \in 1..Len(all_chunks) : all_chunks[k].text # <<>>
        /\ (sent_tokenize(doc_text) = <<>>) => (all_chunks = <<>>)
        /\ (doc_text = TEXT_EMPTY) => (all_chunks = <<>>)

\* A page without headings has returned its whole text "B y. A x." as one
\* chunk with an empty section_path.
C21_Witness ==
    /\ cd_pc = "returned"
    /\ doc_headings = <<>>
    /\ doc_text = TEXT_BA
    /\ all_chunks = <<[text |-> TEXT_BA, section_path |-> <<>>]>>

(***************************************************************************)
(* The frontier                                                            *)
(***************************************************************************)

\* The position of a URL in the order of first enqueueing.
EnqueuePos(u) == CHOOSE i \in 1..Len(enq_log) : enq_log[i] = u

\* C22: the frontier is FIFO.  The URLs dequeued so far, in dequeue order,
\* followed by the URLs still queued, in queue order, are exactly the URLs
\* in the order in which they were enqueued (each once); so of two URLs
\* dequeued, the one dequeued first was enqueued first, and every fetch is
\* of the URL just dequeued.
C22_Fifo ==
    /\ NoDup(enq_log)
    /\ enq_log = Dequeued \o q
    /\ \A i, j \in 1..Len(iter_log) :
          i < j => EnqueuePos(iter_log[i].url) < EnqueuePos(iter_log[j].url)
    /\ \A i \in 1..Len(q) : \A j \in 1..Len(iter_log) :
          EnqueuePos(iter_log[j].url) < EnqueuePos(q[i])
    /\ pc \in {"robots", "parse", "sleep"} => url = enq_log[Len(iter_log)]

\* Three URLs have been dequeued, the second and the third in the order in
\* which the first page's links were enqueued, and the third has been
\* fetched.
C22_Witness ==
    /\ Len(iter_log) = 3
    /\ iter_log[1].outcome = "recorded"
    /\ Len(iter_log[1].q0) = 0
    /\ iter_log[2].url = enq_log[2]
    /\ iter_log[3].url = enq_log[3]
    /\ iter_log[2].q0 = <<enq_log[3]>>
    /\ iter_log[3].fetched

(***************************************************************************)
(* Termination                                                             *)
(***************************************************************************)

\* C23: when every step of the loop returns, crawl leaves the loop, under
\* every combination of robots, fetch and extraction outcomes, and it
\* leaves it with the queue empty or with pages_crawled >= max_pages.
C23_Terminates ==
    <>(pc = "done" /\ (q = <<>> \/ pages_crawled >= max_pages))

\* The crawl has ended because the frontier was exhausted below the page
\* budget, after a recorded page, a robots denial and a failed fetch.
C23_Witness ==
    /\ pc = "done"
    /\ q = <<>>
    /\ pages_crawled < max_pages
    /\ Len(iter_log) = 3
    /\ iter_log[1].outcome = "recorded"
    /\ iter_log[2].outcome = "denied"
    /\ iter_log[3].outcome = "fetch_failed"

\* C23 as stated: the loop is eventually left with the queue empty or
\* pages_crawled = max_pages.
C23_Original ==
    <>(pc = "done" /\ (q = <<>> \/ pages_crawled = max_pages))

(***************************************************************************)
(* chunk_section keeps every sentence                                      *)
(***************************************************************************)

\* The runs of sentences built so far: the chunks emitted and, inside the
\* loop, the chunk being built.
Runs ==
    IF cs_pc = "loop" /\ current_chunk_sentences # <<>>
    THEN Append(chunk_log, current_chunk_sentences)
    ELSE chunk_log

\* The k-th smallest member of a set of numbers.
KthSmallest(E, k) == CHOOSE x \in E : Cardinality({y \in E : y <= x}) = k

\* The runs are, in order, the sentences a..e of the section for the
\* increasing last positions e of E; none is empty, the first starts at
\* sentence 1, each next one starts no later than right after the end of
\* the one before, and the last ends at sentence n.
RunsCover(runs, E, n) ==
    /\ Cardinality(E) = Len(runs)
    /\ (n > 0) => (n \in E)
    /\ \A k \in 1..Len(runs) :
          LET e == KthSmallest(E, k)
              a == e - Len(runs[k]) + 1
          IN  /\ Len(runs[k]) >= 1
              /\ a >= 1
              /\ runs[k] = SubSeq(sentences, a, e)
              /\ a <= (IF k = 1 THEN 1 ELSE KthSmallest(E, k - 1) + 1)

\* C24: chunk_section loses and reorders no sentence.  After any number of
\* sentences taken, the chunks emitted (with the chunk being built) are
\* non-empty contiguous runs of the section's sentences in the original
\* order with strictly increasing ends, which together hold every sentence
\* taken so far; every chunk is its run joined by blanks; there are never
\* more chunks than sentences; and at the return every sentence of the
\* section is in some chunk.
C24_NoSentenceLost ==
    /\ \E E \in SUBSET (1..sent_i) : RunsCover(Runs, E, sent_i)
    /\ Len(chunks) = Len(chunk_log)
    /\ \A k \in 1..Len(chunks) : chunks[k] = Join(chunk_log[k], " ")
    /\ Len(chunks) <= sent_i
    /\ cs_pc = "returned" =>
          /\ sent_i = Len(sentences)
          /\ Len(chunks) <= Len(sentences)
          /\ \A i \in 1..Len(sentences) : \E k \in 1..Len(chunk_log) :
                \E j \in 1..Len(chunk_log[k]) : chunk_log[k][j] = sentences[i]

\* A section of four sentences has been returned as at least two chunks, the
\* second of which starts with sentences of the first.
C24_Witness ==
    /\ cs_pc = "returned"
    /\ Len(sentences) = 4
    /\ Len(chunks) >= 2
    /\ seed_log[1] # <<>>
    /\ Len(chunk_log[1]) >= 2

(***************************************************************************)
(* Where the chunks of a page with headings come from                      *)
(***************************************************************************)

\* The position of heading i's text in clean_text; 0 when it is not there.
HeadingPos(i) == FindSeq(doc_text, doc_headings[i].text, 1)

\* The positions of the heading texts that occur in clean_text.
LocatedStarts == {HeadingPos(i) : i \in 1..Len(doc_headings)} \ {0}

\* The position of the earliest located heading text.
Earliest == CHOOSE p \in LocatedStarts : \A r \in LocatedStarts : p <= r

\* The chunk texts of the sections of the headings 1..i, in order.
RECURSIVE SpanChunks(_)
SpanChunks(i) ==
    IF i = 0 THEN <<>>
    ELSE SpanChunks(i - 1) \o
         chunk_section(sect_log[i], DefaultMaxChunkTokens, DefaultOverlapTokens)

\* C25: on a page with headings, the chunk texts are, in order, the chunks
\* of the spans taken for the headings visited.  A heading whose text is
\* not in clean_text has an empty span and gives no chunk, yet it is on top
\* of the stack after its visit.  A non-empty span is a run of clean_text
\* that begins with the heading's text at its first occurrence, at or after
\* the earliest located heading text, so that every chunk begins with the
\* text of a located heading and the text before the earliest located
\* heading (no passage is repeated in these texts) is in no chunk.  When no
\* heading text occurs in clean_text there is no chunk.
C25_ChunksFromHeadings ==
    (doc_headings # <<>>) =>
        /\ ChunkTexts = SpanChunks(Len(sect_log))
        /\ \A i \in 1..Len(sect_log) :
              /\ stack_log[i][Len(stack_log[i])] = doc_headings[i]
              /\ (HeadingPos(i) = 0) =>
                    /\ sect_log[i] = <<>>
                    /\ SpanChunks(i) = SpanChunks(i - 1)
              /\ (sect_log[i] # <<>>) =>
                    /\ HeadingPos(i) >= Earliest
                    /\ sect_log[i] = SubSeq(doc_text, HeadingPos(i),
                                            HeadingPos(i) + Len(sect_log[i]) - 1)
                    /\ IsPrefix(doc_headings[i].text, sect_log[i])
        /\ \A k \in 1..Len(all_chunks) :
              /\ \E i \in 1..Len(sect_log) :
                    /\ HeadingPos(i) # 0
                    /\ IsPrefix(doc_headings[i].text, all_chunks[k].text)
              /\ LET before == Strip(SubSeq(doc_text, 1, Earliest - 1))
                 IN  (before # <<>>) => ~Contains(all_chunks[k].text, before)
        /\ (LocatedStarts = {}) => (all_chunks = <<>>)

\* On the text "B y. A x." with the headings [H3 "C", H1 "A"], chunk_document
\* has returned the one chunk "A x.": "C" is not in the text and gave no
\* chunk though it was pushed, and "B y." before "A" is in no chunk.
C25_Witness ==
    /\ cd_pc = "returned"
    /\ doc_text = TEXT_BA
    /\ doc_headings = <<H_C3, H_A1>>
    /\ stack_log[1] = <<H_C3>>
    /\ sect_log[1] = <<>>
    /\ all_chunks = <<[text |-> <<"A", " ", "x", ".">>,
                       section_path |-> <<(<<"A">>)>>]>>

====
